---- MODULE Spec2Model ----
(***************************************************************************)
(* django-mptt (mptt2): the tree-aware model fields of mptt2/fields.py and *)
(* the version string of setup.py.                                         *)
(*                                                                         *)
(* Spec      : the import of mptt2/fields.py (class definitions, the       *)
(*             guarded South registration) followed by the construction    *)
(*             of one adapter field and any number of formfield calls.     *)
(* SetupSpec : the run of setup.py from reading mptt2.VERSION to the call  *)
(*             of distutils' setup().                                      *)
(*                                                                         *)
(* Python strings that are computed (the version string) are sequences of  *)
(* one-character strings; names (classes, keys, exception types) are TLA+  *)
(* strings.                                                                *)
(***************************************************************************)
EXTENDS Integers, Sequences, FiniteSets, TLC

VARIABLES
    \* ---- import of mptt2/fields.py
    south,        \* environment: is south.modelsinspector importable, and does it work
    ipc,          \* position of the module body
    defined,      \* adapter classes bound in the module namespace
    rules,        \* patterns South has been handed (its allowed_fields list)
    raised,       \* exception raised inside the try block, "none" if none
    swallowed,    \* exception the except clause caught, "none" if none
    importExc,    \* exception that left the module body, "none" if none
    \* ---- one adapter field and its formfield calls
    field,        \* the adapter instance: its class and its attributes
    builtAs,      \* the adapter instance as its constructor left it
    fpc,          \* position inside formfield
    callerMap,    \* the caller's own dict object
    localMap,     \* the dict object Python builds for **kwargs
    kwargsRef,    \* which dict object the name kwargs is bound to
    callInput,    \* the caller's mapping as it was when the call was made
    forwarded,    \* the mapping the base formfield received
    baseOutcome,  \* what the base formfield did
    result,       \* what the adapter's formfield did
    prevExplicit, \* an earlier call carried an explicit form_class
    \* ---- setup.py
    VERSION,       \* the package's VERSION attribute
    spc,           \* position of the script
    version_tuple, \* setup.py:5
    version,       \* setup.py:6
    setupExc,      \* exception that ended the script, "none" if none
    setupVersion   \* the version keyword setup() was called with

fieldsVars == <<south, ipc, defined, rules, raised, swallowed, importExc,
                field, builtAs, fpc, callerMap, localMap, kwargsRef, callInput,
                forwarded, baseOutcome, result, prevExplicit>>

setupVars == <<VERSION, spc, version_tuple, version, setupExc, setupVersion>>

vars == <<fieldsVars, setupVars>>

----------------------------------------------------------------------------
(* mptt2/fields.py: names *)

AdapterClasses == {"TreeForeignKey", "TreeOneToOneField", "TreeManyToManyField"}

\* the form_class each adapter hands to setdefault
DefaultFormClassCopied(cls) == "TreeNodeChoiceField"

DefaultFormClass(cls) ==
    IF cls = "TreeManyToManyField" THEN "TreeNodeMultipleChoiceField"
                                   ELSE "TreeNodeChoiceField"

\* A keyword mapping is a function on Keys; Absent marks a key the dict
\* does not hold.  Python's None is the value "None", a key that is present.
Absent == "<absent>"

Keys == {"form_class", "widget", "label"}

KeyValues(k) ==
    IF k = "form_class"
        THEN {"None", "CustomChoiceField", "TreeNodeMultipleChoiceField"}
    ELSE IF k = "widget" THEN {"Select"}
    ELSE {"Parent"}

Mappings == {m \in [Keys -> {Absent} \cup UNION {KeyValues(k) : k \in Keys}] :
                \A k \in Keys : m[k] \in {Absent} \cup KeyValues(k)}

EmptyMap == [k \in Keys |-> Absent]

Present(m) == {k \in Keys : m[k] # Absent}

\* dict.setdefault(key, value): writes only when the key is not in the dict
SetDefaultFalsy(m, key, value) ==
    IF m[key] \in {Absent, "None"} THEN [m EXCEPT ![key] = value] ELSE m

SetDefaultDict(m, key, value) ==
    IF m[key] = Absent THEN [m EXCEPT ![key] = value] ELSE m

\* def formfield(self, **kwargs): Python binds kwargs to a new dict that
\* holds the caller's keywords; the caller's dict object is another object.
BindKwargsAliased == "caller"

BindKwargs == "local"

\* super(...).formfield(**kwargs): the base receives every entry of kwargs
UnpackFormClassOnly(m) == [k \in Keys |-> IF k = "form_class" THEN m[k] ELSE Absent]

UnpackForward(m) == m

NoOutcome == [kind |-> "none", val |-> ""]

\* the base relationship field's formfield: it returns a form field object
\* or raises
BaseOutcomes ==
    {[kind |-> "return", val |-> o] : o \in {"formfield#1", "formfield#2"}}
    \cup {[kind |-> "raise", val |-> e] : e \in {"TypeError", "ValueError"}}

\* return super(...).formfield(**kwargs): no handler around the call
PropagateNoReturn(o) == IF o.kind = "return" THEN [kind |-> "return", val |-> "None"] ELSE o

Propagate(o) == o

NoField == [cls |-> "none", null |-> FALSE]

----------------------------------------------------------------------------
(* mptt2/fields.py: the module body *)

SouthEnvs == {"absent", "present", "faulty"}

ExcTypes == {"ImportError", "AssertionError"}

\* the pattern of the i-th add_introspection_rules call
PatternCopied(i) ==
    IF i = 1 THEN "^mptt2\\.fields\\.TreeForeignKey"
    ELSE "^mptt2\\.fields\\.TreeOneToOneField"

Pattern(i) ==
    IF i = 1 THEN "^mptt2\\.fields\\.TreeForeignKey"
    ELSE IF i = 2 THEN "^mptt2\\.fields\\.TreeOneToOneField"
    ELSE "^mptt2\\.fields\\.TreeManyToManyField"

\* except ImportError:
ExceptMatchesAll(e) == TRUE

ExceptMatches(e) == e = "ImportError"

FieldsInit ==
    /\ south \in SouthEnvs
    /\ ipc = "classes"
    /\ defined = {}
    /\ rules = <<>>
    /\ raised = "none"
    /\ swallowed = "none"
    /\ importExc = "none"
    /\ field = NoField
    /\ builtAs = NoField
    /\ fpc = "idle"
    /\ callerMap = EmptyMap
    /\ localMap = EmptyMap
    /\ kwargsRef = "none"
    /\ callInput = EmptyMap
    /\ forwarded = EmptyMap
    /\ baseOutcome = NoOutcome
    /\ result = NoOutcome
    /\ prevExplicit = FALSE

callVars == <<field, builtAs, fpc, callerMap, localMap, kwargsRef, callInput,
              forwarded, baseOutcome, result, prevExplicit>>

\* class TreeForeignKey / TreeOneToOneField / TreeManyToManyField
DefineClasses ==
    /\ ipc = "classes"
    /\ defined' = AdapterClasses
    /\ ipc' = "try_import"
    /\ UNCHANGED <<south, rules, raised, swallowed, importExc, callVars, setupVars>>

\* from south.modelsinspector import add_introspection_rules
ImportSouth ==
    /\ ipc = "try_import"
    /\ IF south = "absent"
          THEN /\ raised' = "ImportError"
               /\ ipc' = "raising"
          ELSE /\ raised' = raised
               /\ ipc' = "reg1"
    /\ UNCHANGED <<south, defined, rules, swallowed, importExc, callVars, setupVars>>

RegPc(i) == IF i = 1 THEN "reg1" ELSE IF i = 2 THEN "reg2" ELSE "reg3"

AfterReg(i) == IF i = 1 THEN "reg2" ELSE IF i = 2 THEN "reg3" ELSE "done"

\* add_introspection_rules([], [pattern]); South appends the pattern to its
\* list and returns.  A faulty South may raise instead.
Register(i, exc) ==
    /\ ipc = RegPc(i)
    /\ exc # "none" => south = "faulty"
    /\ IF exc = "none"
          THEN /\ rules' = Append(rules, Pattern(i))
               /\ ipc' = AfterReg(i)
               /\ raised' = raised
          ELSE /\ rules' = rules
               /\ ipc' = "raising"
               /\ raised' = exc
    /\ UNCHANGED <<south, defined, swallowed, importExc, callVars, setupVars>>

\* the except clause: a matching exception is caught and passed over, any
\* other leaves the module body
HandleException ==
    /\ ipc = "raising"
    /\ IF ExceptMatches(raised)
          THEN /\ swallowed' = raised
               /\ importExc' = importExc
               /\ ipc' = "done"
          ELSE /\ swallowed' = swallowed
               /\ importExc' = raised
               /\ ipc' = "failed"
    /\ UNCHANGED <<south, defined, rules, raised, callVars, setupVars>>

----------------------------------------------------------------------------
(* mptt2/fields.py: an adapter field and its formfield method *)

importVars == <<south, ipc, defined, rules, raised, swallowed, importExc>>

\* a model declares the field once the module is imported
Construct(cls, null) ==
    /\ ipc = "done"
    /\ field = NoField
    /\ cls \in defined
    /\ field' = [cls |-> cls, null |-> null]
    /\ builtAs' = field'
    /\ UNCHANGED <<importVars, fpc, callerMap, localMap, kwargsRef, callInput,
                   forwarded, baseOutcome, result, prevExplicit, setupVars>>

\* the dict object the name kwargs stands for
Deref == IF kwargsRef = "caller" THEN callerMap ELSE localMap

\* field.formfield(**m): the caller holds m in a dict of its own
Call(m) ==
    /\ field # NoField
    /\ fpc = "idle"
    /\ callerMap' = m
    /\ callInput' = m
    /\ kwargsRef' = BindKwargs
    /\ localMap' = IF kwargsRef' = "local" THEN m ELSE EmptyMap
    /\ forwarded' = EmptyMap
    /\ baseOutcome' = NoOutcome
    /\ result' = NoOutcome
    /\ prevExplicit' = (prevExplicit \/
                          (result # NoOutcome /\ callInput["form_class"] # Absent))
    /\ fpc' = "entered"
    /\ UNCHANGED <<importVars, field, builtAs, setupVars>>

\* kwargs.setdefault('form_class', <the adapter's tree-aware class>)
SetDefault ==
    /\ fpc = "entered"
    /\ LET d == SetDefaultDict(Deref, "form_class", DefaultFormClass(field.cls))
       IN  IF kwargsRef = "caller"
              THEN callerMap' = d /\ localMap' = localMap
              ELSE localMap' = d /\ callerMap' = callerMap
    /\ fpc' = "defaulted"
    /\ UNCHANGED <<importVars, field, builtAs, kwargsRef, callInput, forwarded,
                   baseOutcome, result, prevExplicit, setupVars>>

\* super(<adapter>, self).formfield(**kwargs)
Delegate(o) ==
    /\ fpc = "defaulted"
    /\ forwarded' = UnpackForward(Deref)
    /\ baseOutcome' = o
    /\ fpc' = "delegated"
    /\ UNCHANGED <<importVars, field, builtAs, callerMap, localMap, kwargsRef,
                   callInput, result, prevExplicit, setupVars>>

\* return <what the base returned>, or the base's exception passes through
Return ==
    /\ fpc = "delegated"
    /\ result' = Propagate(baseOutcome)
    /\ localMap' = EmptyMap
    /\ kwargsRef' = "none"
    /\ fpc' = "idle"
    /\ UNCHANGED <<importVars, field, builtAs, callerMap, callInput, forwarded,
                   baseOutcome, prevExplicit, setupVars>>

----------------------------------------------------------------------------
(* setup.py: Python values and the operations the script applies to them *)

MaxLen == 3

MaxVer == 10

\* an element of a tuple: an int, a str or None
IntE(n) == [t |-> "int", n |-> n, s |-> <<>>]

StrE(cs) == [t |-> "str", n |-> 0, s |-> cs]

NoneE == [t |-> "none", n |-> 0, s |-> <<>>]

Elems == {IntE(n) : n \in (-1)..MaxVer} \cup {StrE(<<"p", "r", "e">>), NoneE}

\* a value of the attribute: missing, None, an int, a str or a tuple
Val(t, n, s, elems) == [t |-> t, n |-> n, s |-> s, elems |-> elems]

Missing == Val("missing", 0, <<>>, <<>>)

Tup(es) == Val("tuple", 0, <<>>, es)

VersionValues ==
    {Missing, Val("none", 0, <<>>, <<>>), Val("int", 120, <<>>, <<>>),
     Val("str", 0, <<"1", ".", "2", ".", "0">>, <<>>)}
    \cup {Tup(es) : es \in UNION {[1..n -> Elems] : n \in 0..MaxLen}}

\* for v in x: a tuple yields its elements, a str its characters, and
\* anything else is not iterable (TypeError)
IterableNoStr(v) == v.t = "tuple"

Iterable(v) == v.t \in {"tuple", "str"}

Items(v) ==
    IF v.t = "tuple" THEN v.elems
    ELSE [i \in 1..Len(v.s) |-> StrE(<<v.s[i]>>)]

DigitChars == <<"0", "1", "2", "3", "4", "5", "6", "7", "8", "9">>

RECURSIVE DecNat(_)
DecNat(n) ==
    IF n < 10 THEN <<DigitChars[n + 1]>>
    ELSE DecNat(n \div 10) \o <<DigitChars[(n % 10) + 1]>>

\* str(v)
Str(e) ==
    IF e.t = "int" THEN (IF e.n < 0 THEN <<"-">> \o DecNat(0 - e.n) ELSE DecNat(e.n))
    ELSE IF e.t = "str" THEN e.s
    ELSE <<"N", "o", "n", "e">>

\* sep.join(parts)
RECURSIVE JoinTrailing(_, _)
JoinTrailing(sep, parts) ==
    IF parts = <<>> THEN <<>>
    ELSE Head(parts) \o sep \o JoinTrailing(sep, Tail(parts))

RECURSIVE Join(_, _)
Join(sep, parts) ==
    IF parts = <<>> THEN <<>>
    ELSE IF Len(parts) = 1 THEN Head(parts)
    ELSE Head(parts) \o sep \o Join(sep, Tail(parts))

\* ".".join([str(v) for v in version_tuple])
VersionString(vt) == Join(<<".">>, [i \in 1..Len(Items(vt)) |-> Str(Items(vt)[i])])

SetupInit ==
    /\ VERSION \in VersionValues
    /\ spc = "start"
    /\ version_tuple = Missing
    /\ version = <<>>
    /\ setupExc = "none"
    /\ setupVersion = <<>>

\* version_tuple = __import__('mptt2').VERSION
ReadVersion ==
    /\ spc = "start"
    /\ IF VERSION.t = "missing"
          THEN /\ setupExc' = "AttributeError"
               /\ spc' = "failed"
               /\ version_tuple' = version_tuple
          ELSE /\ version_tuple' = VERSION
               /\ spc' = "join"
               /\ setupExc' = setupExc
    /\ UNCHANGED <<VERSION, version, setupVersion, fieldsVars>>

\* version = ".".join([str(v) for v in version_tuple])
ComputeVersion ==
    /\ spc = "join"
    /\ IF Iterable(version_tuple)
          THEN /\ version' = VersionString(version_tuple)
               /\ spc' = "setup"
               /\ setupExc' = setupExc
          ELSE /\ setupExc' = "TypeError"
               /\ spc' = "failed"
               /\ version' = version
    /\ UNCHANGED <<VERSION, version_tuple, setupVersion, fieldsVars>>

\* setup(name = 'django-mptt', ..., version = version, ...)
CallSetup ==
    /\ spc = "setup"
    /\ setupVersion' = version
    /\ spc' = "done"
    /\ UNCHANGED <<VERSION, version_tuple, version, setupExc, fieldsVars>>

----------------------------------------------------------------------------
(* specifications *)

\* setup.py has not run
SetupIdle ==
    /\ VERSION = Tup(<<IntE(1), IntE(2), IntE(0)>>)
    /\ spc = "start"
    /\ version_tuple = Missing
    /\ version = <<>>
    /\ setupExc = "none"
    /\ setupVersion = <<>>

\* mptt2.fields has not been imported
FieldsIdle ==
    /\ FieldsInit
    /\ south = "absent"

Init == FieldsInit /\ SetupIdle

Next ==
    \/ DefineClasses
    \/ ImportSouth
    \/ \E i \in 1..3, exc \in {"none"} \cup ExcTypes : Register(i, exc)
    \/ HandleException
    \/ \E cls \in AdapterClasses, null \in BOOLEAN : Construct(cls, null)
    \/ \E m \in Mappings : Call(m)
    \/ SetDefault
    \/ \E o \in BaseOutcomes : Delegate(o)
    \/ Return

Spec == Init /\ [][Next]_vars

InitSetup == FieldsIdle /\ SetupInit

NextSetup ==
    \/ ReadVersion
    \/ ComputeVersion
    \/ CallSetup

SetupSpec == InitSetup /\ [][NextSetup]_vars

----------------------------------------------------------------------------
(* properties of formfield, checked under Spec *)

\* the base has been called for the current (or the last) call
Forwarded == baseOutcome # NoOutcome

\* C1: when the caller's mapping has no form_class entry, the form_class
\* the base formfield receives is TreeNodeChoiceField for TreeForeignKey and
\* TreeOneToOneField, and TreeNodeMultipleChoiceField for TreeManyToManyField.
C1_DefaultFormClass ==
    (Forwarded /\ callInput["form_class"] = Absent) =>
        /\ field.cls \in {"TreeForeignKey", "TreeOneToOneField"}
              => forwarded["form_class"] = "TreeNodeChoiceField"
        /\ field.cls = "TreeManyToManyField"
              => forwarded["form_class"] = "TreeNodeMultipleChoiceField"

C1_Witness ==
    /\ baseOutcome.kind = "return"
    /\ callInput["form_class"] = Absent
    /\ field.cls = "TreeManyToManyField"
    /\ forwarded["form_class"] = "TreeNodeMultipleChoiceField"

\* C2: when the caller's mapping holds a form_class entry, whatever its
\* value (None included), the base formfield receives that very value.
C2_ExplicitFormClassKept ==
    (Forwarded /\ callInput["form_class"] # Absent) =>
        forwarded["form_class"] = callInput["form_class"]

C2_Witness ==
    /\ Forwarded
    /\ callInput["form_class"] = "None"
    /\ forwarded["form_class"] = "None"

\* C3: the mapping the base formfield receives has the caller's keys plus at
\* most form_class, and every key of the caller keeps the caller's value.
C3_OnlyFormClassAdded ==
    Forwarded =>
        /\ Present(callInput) \subseteq Present(forwarded)
        /\ Present(forwarded) \subseteq Present(callInput) \cup {"form_class"}
        /\ \A k \in Present(callInput) : forwarded[k] = callInput[k]

C3_Witness ==
    /\ Forwarded
    /\ Present(callInput) = {"widget", "label"}
    /\ Present(forwarded) = {"widget", "label", "form_class"}
    /\ forwarded["widget"] = "Select"
    /\ forwarded["label"] = "Parent"

\* C7: a finished formfield call ended exactly as the base formfield did:
\* it raised the base's error if the base raised, and otherwise returned the
\* object the base returned; and it never ends before the base was called.
C7_OutcomeIsBaseOutcome ==
    /\ result # NoOutcome => (Forwarded /\ result = baseOutcome)
    /\ (fpc = "idle" /\ Forwarded) => result # NoOutcome

C7_Witness ==
    /\ fpc = "idle"
    /\ baseOutcome = [kind |-> "return", val |-> "formfield#2"]
    /\ result = baseOutcome

\* what a call must forward, as a function of the adapter class and of that
\* call's own input
ExpectedForward(cls, m) ==
    [k \in Keys |->
        IF k = "form_class" /\ m[k] = Absent
            THEN (IF cls = "TreeManyToManyField" THEN "TreeNodeMultipleChoiceField"
                                                 ELSE "TreeNodeChoiceField")
            ELSE m[k]]

\* C8: formfield calls leave the adapter instance as constructed and the
\* caller's own mapping object as the caller made it, and what a call
\* forwards is determined by the adapter class and that call's input alone,
\* whatever the earlier calls were.
C8_NoStateAcrossCalls ==
    /\ field = builtAs
    /\ callerMap = callInput
    /\ Forwarded => forwarded = ExpectedForward(field.cls, callInput)

C8_Witness ==
    /\ prevExplicit
    /\ result # NoOutcome
    /\ callInput["form_class"] = Absent
    /\ callerMap["form_class"] = Absent
    /\ forwarded["form_class"] = "TreeNodeChoiceField"

----------------------------------------------------------------------------
(* properties of the module import, checked under Spec *)

ThreePatterns ==
    <<"^mptt2\\.fields\\.TreeForeignKey",
      "^mptt2\\.fields\\.TreeOneToOneField",
      "^mptt2\\.fields\\.TreeManyToManyField">>

\* C4: with south.modelsinspector not importable the import raises nothing,
\* registers nothing and defines the three adapter classes; with a present
\* (working) South it raises nothing and registers exactly the three
\* patterns, one per adapter class.
C4_ImportWithAndWithoutSouth ==
    /\ south \in {"absent", "present"} => (ipc # "failed" /\ importExc = "none")
    /\ south = "absent" => rules = <<>>
    /\ (south = "absent" /\ ipc = "done") =>
           (defined = AdapterClasses /\ swallowed = "ImportError")
    /\ (south = "present" /\ ipc = "done") =>
           (defined = AdapterClasses /\ rules = ThreePatterns /\ swallowed = "none")

C4_Witness ==
    /\ south = "present"
    /\ ipc = "done"
    /\ Len(rules) = 3
    /\ field.cls = "TreeOneToOneField"

\* C9: an import that completed without raising has registered 0 or 3
\* rules, never 1 or 2.
C9_AllOrNothing == ipc = "done" => Len(rules) \in {0, 3}

\* C10: the except clause catches import failures only: any other error
\* raised by a registration call leaves the module import, and nothing in
\* formfield catches an error of the base.
C10_OnlyImportErrorSwallowed ==
    /\ swallowed \in {"none", "ImportError"}
    /\ (ipc \in {"done", "failed"} /\ raised \notin {"none", "ImportError"}) =>
           (ipc = "failed" /\ importExc = raised /\ swallowed = "none")
    /\ (result # NoOutcome /\ baseOutcome.kind = "raise") => result = baseOutcome

C10_Witness ==
    /\ south = "faulty"
    /\ Len(rules) = 1
    /\ raised = "AssertionError"
    /\ ipc = "failed"
    /\ importExc = "AssertionError"

----------------------------------------------------------------------------
(* properties of setup.py, checked under SetupSpec *)

\* s.split("."): the pieces of s between the separators
RECURSIVE SplitOnDot(_)
SplitOnDot(cs) ==
    IF \A i \in 1..Len(cs) : cs[i] # "." THEN <<cs>>
    ELSE LET i == CHOOSE j \in 1..Len(cs) :
                     cs[j] = "." /\ \A h \in 1..(j - 1) : cs[h] # "."
         IN  <<SubSeq(cs, 1, i - 1)>> \o SplitOnDot(SubSeq(cs, i + 1, Len(cs)))

IsDigit(c) == \E d \in 1..10 : DigitChars[d] = c

DigitValue(c) == (CHOOSE d \in 1..10 : DigitChars[d] = c) - 1

\* a canonical decimal numeral: an optional sign, digits, no leading zero
IsNumeral(cs) ==
    LET ds == IF cs # <<>> /\ Head(cs) = "-" THEN Tail(cs) ELSE cs
    IN  /\ ds # <<>>
        /\ \A i \in 1..Len(ds) : IsDigit(ds[i])
        /\ Len(ds) > 1 => ds[1] # "0"

RECURSIVE NatValue(_)
NatValue(ds) ==
    IF ds = <<>> THEN 0
    ELSE 10 * NatValue(SubSeq(ds, 1, Len(ds) - 1)) + DigitValue(ds[Len(ds)])

NumeralValue(cs) ==
    IF Head(cs) = "-" THEN 0 - NatValue(Tail(cs)) ELSE NatValue(cs)

IsIntTuple(v) ==
    v.t = "tuple" /\ \A i \in 1..Len(v.elems) : v.elems[i].t = "int"

\* C5: for a tuple of integers the version string is the elements' decimal
\* numerals in tuple order with one "." between neighbours and none at
\* either end (splitting it at "." and reading the numerals gives the tuple
\* back); (1, 2, 0) gives "1.2.0"; setup() receives that string.
C5_DottedVersion ==
    (spc \in {"setup", "done"} /\ IsIntTuple(VERSION)) =>
        LET parts == SplitOnDot(version)
        IN  /\ IF VERSION.elems = <<>>
                  THEN version = <<>>
                  ELSE /\ Len(parts) = Len(VERSION.elems)
                       /\ \A i \in 1..Len(parts) :
                              /\ IsNumeral(parts[i])
                              /\ NumeralValue(parts[i]) = VERSION.elems[i].n
            /\ VERSION.elems = <<IntE(1), IntE(2), IntE(0)>>
                  => version = <<"1", ".", "2", ".", "0">>
            /\ spc = "done" => setupVersion = version

C5_Witness ==
    /\ VERSION = Tup(<<IntE(1), IntE(2), IntE(0)>>)
    /\ spc = "done"
    /\ setupVersion = <<"1", ".", "2", ".", "0">>

WellFormedVersion ==
    IsIntTuple(VERSION) /\ VERSION.elems # <<>>

\* C6 as stated: the script raises before setup() whenever VERSION is
\* missing or is not a non-empty sequence of integers, and does not fail
\* for a well-formed tuple.
C6_FailsOnMalformed ==
    /\ ~WellFormedVersion => spc \notin {"setup", "done"}
    /\ WellFormedVersion => spc # "failed"

\* C6 (amended): the script raises before setup() exactly when VERSION is
\* missing (AttributeError) or is not iterable, such as None or a bare
\* integer (TypeError); for a str or a tuple, whatever its elements and its
\* length, nothing is validated and the script does not fail.
C6_FailsOnMissingOrNotIterable ==
    /\ VERSION.t \in {"missing", "none", "int"} => spc \notin {"setup", "done"}
    /\ VERSION.t \in {"str", "tuple"} => (spc # "failed" /\ setupExc = "none")
    /\ spc = "failed" =>
          /\ setupVersion = <<>>
          /\ setupExc = IF VERSION.t = "missing" THEN "AttributeError" ELSE "TypeError"

C6_Witness ==
    /\ VERSION.t = "str"
    /\ spc = "done"
    /\ setupVersion = <<"1", ".", ".", ".", "2", ".", ".", ".", "0">>

====
